---- MODULE Spec2Model ----
(***************************************************************************)
(* Model of the Tokyo personnel-directory compiler.                        *)
(*                                                                         *)
(*   compile_tokyo_dataframe.py   the stateful compile loop (main) and its *)
(*                                classifiers                              *)
(*   process_tokyo_directory.py   stage 1: match_position, extract_names   *)
(*                                and sort_lines_by_columns                *)
(*   fix_final_v2.py .. v14.py    the scripts that patch                   *)
(*                                inference_divide.py                      *)
(*                                                                         *)
(* Text is modelled as a sequence of characters.  A one-letter token is    *)
(* the ASCII character itself; a longer token names a CJK character:       *)
(*   ka 課  cho 長  shu 主  ji 事  gi 技  shi 師  sho 書  ki 記             *)
(*   jo 所  toku 得  zei 税  ta 田  naka 中  tai 太  ro 郎  yama 山         *)
(*   suzu 鈴  moku 木  ou 應  meshi 召  maru ◎  getsu 月  nana 七  go 五    *)
(*   sei 正  kurai 位  dot ・  ban 番  no ノ  wo ヲ  zu 図  kan 館  ue 上   *)
(*   ko 子  kane 金  hana 花  hira 平  fu 婦  mi 美  chi 小  sa 佐           *)
(*   Ha ハ  Na ナ                                                          *)
(***************************************************************************)
EXTENDS Integers, Sequences, FiniteSets, TLC

----------------------------------------------------------------------------
(* Bounds of the exploration *)

\* number of input rows a run reads
MaxRows == 3

----------------------------------------------------------------------------
(* Python string primitives over character sequences *)

\* the literal 'Unknown'
Unknown == <<"U", "n", "k", "n", "o", "w", "n">>

\* the literal "Unknown Office"
UnknownOffice == <<"U", "n", "k", "n", "o", "w", "n", " ", "O", "f", "f", "i", "c", "e">>

\* str() of a missing (NaN) cell
NaN == <<"n", "a", "n">>

\* the empty string
Empty == <<>>

Whitespace == {" "}

RECURSIVE LStripSet(_, _)
\* str.lstrip(chars)
LStripSet(s, chars) ==
    IF s # <<>> /\ Head(s) \in chars THEN LStripSet(Tail(s), chars) ELSE s

RECURSIVE RStripSet(_, _)
\* str.rstrip(chars)
RStripSet(s, chars) ==
    IF s # <<>> /\ s[Len(s)] \in chars
    THEN RStripSet(SubSeq(s, 1, Len(s) - 1), chars)
    ELSE s

\* str.strip(chars)
StripSet(s, chars) == RStripSet(LStripSet(s, chars), chars)

\* str.strip()
Strip(s) == StripSet(s, Whitespace)

\* text.startswith(prefix)
StartsWith(s, p) == Len(p) <= Len(s) /\ SubSeq(s, 1, Len(p)) = p

\* sub in text
Contains(s, sub) ==
    \E i \in 1..(Len(s) - Len(sub) + 1) : SubSeq(s, i, i + Len(sub) - 1) = sub

\* sum(1 for c in text if c in chars)
CountIn(s, chars) == Cardinality({i \in 1..Len(s) : s[i] \in chars})

\* len(set(text))
Distinct(s) == Cardinality({s[i] : i \in 1..Len(s)})

\* the str(x).strip() of a cell with 'nan' mapped to ''
Cell(x) ==
    LET stripped == Strip(x)
    IN  IF stripped = NaN THEN Empty ELSE stripped

----------------------------------------------------------------------------
(* Character classes *)

\* c.isascii() and c.isalpha()
AsciiAlpha == {"R", "T", "G", "A", "B", "U", "n", "k", "o", "w", "a", "O", "f", "i", "c", "e"}

\* c.isdigit()
Digits == {"0", "3"}

\* circle_symbols of is_header_candidate
CircleSymbols == {"maru", "O", "o", "0"}

\* the brackets that reject a header
OpenBrackets == {"("}

\* office_endings of is_header_candidate
OfficeEndings == {"ka", "jo", "kan"}

\* kanji_nums of is_likely_noise
KanjiNums == {"nana", "go"}

\* the numerals of the phone/address pattern
PhoneNums == {"nana", "go"} \cup Digits

\* the characters of the ellipsis pattern
DotChars == {"dot", "."}

\* classical_particles
ClassicalParticles == {"no", "wo"}

\* the library-stamp keywords
StampKeywords == {<<"zu", "sho", "kan">>}

\* draft_keywords
DraftKeywords == {<<"ou", "meshi">>, <<"meshi", "naka">>}

\* single_person_positions
SinglePersonPositions == {<<"ka", "cho">>, <<"shu", "ji">>, <<"gi", "shi">>}

----------------------------------------------------------------------------
(* Classifiers of compile_tokyo_dataframe.py *)

\* IsHeaderCandidate without the crosswalk lookup: the ending alone decides
IsHeaderCandidate_EndingOnly(text0, headers_set) ==
    LET text == Strip(text0)
        cleaned == Strip(LStripSet(text, CircleSymbols))
    IN  /\ text # Empty
        /\ text[1] \notin OpenBrackets
        /\ cleaned # Empty
        /\ Len(cleaned) < 15
        /\ cleaned[Len(cleaned)] \in OfficeEndings
        /\ text[Len(text)] # "cho"

\* IsHeaderCandidate measuring the length before the circle symbols are stripped
IsHeaderCandidate_TextLength(text0, headers_set) ==
    LET text == Strip(text0)
        cleaned == Strip(LStripSet(text, CircleSymbols))
    IN  /\ text # Empty
        /\ text[1] \notin OpenBrackets
        /\ cleaned # Empty
        /\ \/ text \in headers_set
           \/ cleaned \in headers_set
           \/ /\ Len(text) < 15
              /\ cleaned[Len(cleaned)] \in OfficeEndings
              /\ text[Len(text)] # "cho"

\* is_header_candidate(text, headers_set); text is already a str
IsHeaderCandidate(text0, headers_set) ==
    LET text == Strip(text0)
        cleaned == Strip(LStripSet(text, CircleSymbols))
    IN  /\ text # Empty
        /\ text[1] \notin OpenBrackets
        /\ cleaned # Empty
        /\ \/ text \in headers_set
           \/ cleaned \in headers_set
           \/ /\ Len(cleaned) < 15
              /\ cleaned[Len(cleaned)] \in OfficeEndings
              /\ text[Len(text)] # "cho"

\* is_position_only_row(row, known_positions): <<is_pos_header, detected_pos>>
IsPositionOnlyRow(row, known_positions) ==
    LET pos  == Cell(row.position)
        name == Cell(row.name)
        raw  == Strip(row.raw_text)
    IN  IF pos # Empty /\ pos # Unknown /\ name = Empty THEN <<TRUE, pos>>
        ELSE IF raw \in known_positions THEN <<TRUE, raw>>
        ELSE IF name \in known_positions /\ (pos = Empty \/ pos = Unknown)
             THEN <<TRUE, name>>
        ELSE <<FALSE, Empty>>

\* NoiseLatin with the threshold at 80% instead of 40%
NoiseLatin_Threshold80(raw) ==
    /\ Len(raw) > 3
    /\ 5 * CountIn(raw, AsciiAlpha) > 4 * Len(raw)

\* signal 1 of is_likely_noise: more than 40% ASCII letters
NoiseLatin(raw) ==
    /\ Len(raw) > 3
    /\ 5 * CountIn(raw, AsciiAlpha) > 2 * Len(raw)

\* signal 2: long text without a position and mostly distinct characters
NoiseLong(raw, position) ==
    /\ Len(raw) > 25
    /\ position = Unknown
    /\ 10 * Distinct(raw) > 7 * Len(raw)

\* signal 3: one-character name from a long text
NoiseSingleChar(raw, name) == Len(name) = 1 /\ Len(raw) > 15

\* signal 4: two or more dot characters in sequence
NoiseDots(raw) ==
    \E i \in 1..(Len(raw) - 1) : raw[i] \in DotChars /\ raw[i + 1] \in DotChars

\* signal 5: more than 15% classical particles
NoiseParticles(raw) ==
    /\ Len(raw) > 8
    /\ 20 * CountIn(raw, ClassicalParticles) > 3 * Len(raw)

\* signal 6: library stamps
NoiseStamp(raw) == \E k \in StampKeywords : Contains(raw, k)

\* signal 7: more than 50% digits or kanji numerals
NoiseNumeric(raw) ==
    /\ Len(raw) > 2
    /\ 2 * CountIn(raw, Digits \cup KanjiNums) > Len(raw)

\* signal 8: a numeral followed somewhere by the counter word, no position
NoisePhone(raw, position) ==
    /\ position = Unknown
    /\ \E i, j \in 1..Len(raw) : i < j /\ raw[i] \in PhoneNums /\ raw[j] = "ban"

\* is_likely_noise(row); raw, name and position are not stripped here
IsLikelyNoise(row) ==
    \/ NoiseLatin(row.raw_text)
    \/ NoiseLong(row.raw_text, row.position)
    \/ NoiseSingleChar(row.raw_text, row.name)
    \/ NoiseDots(row.raw_text)
    \/ NoiseParticles(row.raw_text)
    \/ NoiseStamp(row.raw_text)
    \/ NoiseNumeric(row.raw_text)
    \/ NoisePhone(row.raw_text, row.position)

----------------------------------------------------------------------------
(* Metadata extraction for v1 inputs *)

\* the numerals of the salary pattern
SalaryNums == {"nana", "go"}

\* the numerals of the rank pattern
RankNums == {"nana", "go"}

\* the characters stripped from the cleaned name
NameTrim == {" ", ","}

\* start of the leftmost match of the salary pattern, 0 when there is none
SalaryStart(text) ==
    LET hits == {i \in 1..(Len(text) - 1) :
                    text[i] = "getsu" /\ text[i + 1] \in SalaryNums}
    IN  IF hits = {} THEN 0 ELSE CHOOSE i \in hits : \A j \in hits : i <= j

RECURSIVE NumeralRunEnd(_, _)
\* last index of the greedy run of salary numerals that starts at i
NumeralRunEnd(text, i) ==
    IF i < Len(text) /\ text[i + 1] \in SalaryNums
    THEN NumeralRunEnd(text, i + 1)
    ELSE i

\* start of the leftmost match of the rank pattern, 0 when there is none
RankStart(text) ==
    LET hits == {i \in 1..(Len(text) - 1) :
                    text[i] = "sei" /\ text[i + 1] \in RankNums}
    IN  IF hits = {} THEN 0 ELSE CHOOSE i \in hits : \A j \in hits : i <= j

\* text with the characters first..last cut out
Cut(text, first, last) ==
    SubSeq(text, 1, first - 1) \o SubSeq(text, last + 1, Len(text))

\* the salary match s..sEnd taken out of text: <<text, salary>>
TakeSalary(text, s, sEnd) ==
    IF s = 0 THEN <<text, Empty>> ELSE <<Cut(text, s, sEnd), SubSeq(text, s + 1, sEnd)>>

\* end of the rank match that starts at r: the optional 位 is taken when present
RankEnd(text, r) ==
    IF r + 2 <= Len(text) /\ text[r + 2] = "kurai" THEN r + 2 ELSE r + 1

\* the rank match r..rEnd taken out of text: <<text, rank>>
TakeRank(text, r, rEnd) ==
    IF r = 0 THEN <<text, Empty>> ELSE <<Cut(text, r, rEnd), SubSeq(text, r, rEnd)>>

\* the rank step, on the text the salary step left
RankStep(text) == TakeRank(text, RankStart(text), RankEnd(text, RankStart(text)))

\* the salary step
SalaryStep(text) ==
    TakeSalary(text, SalaryStart(text), NumeralRunEnd(text, SalaryStart(text) + 1))

\* the return value, from what the two steps found
MetadataResult(sal, rnk) == <<StripSet(rnk[1], NameTrim), sal[2], rnk[2]>>

\* the rank step applied after the salary step
AfterSalary(sal) == MetadataResult(sal, RankStep(sal[1]))

\* parse_metadata_fallback(text): <<clean_name, salary, rank>>
ParseMetadataFallback(text) == AfterSalary(SalaryStep(text))

----------------------------------------------------------------------------
(* Name plausibility and gender *)

\* the CJK ideographs and katakana of the alphabet
CjkOrKatakana ==
    {"ka", "cho", "shu", "ji", "gi", "shi", "sho", "ki", "jo", "toku", "zei",
     "ta", "naka", "tai", "ro", "yama", "suzu", "moku", "ou", "meshi", "getsu",
     "nana", "go", "sei", "kurai", "dot", "ban", "no", "wo", "zu", "kan", "ue",
     "ko", "kane", "hana", "hira", "fu", "mi", "chi", "sa", "Ha", "Na"}

\* the tokens the morphological analyzer returns for a name: the dictionary
\* knows three surnames and two given names, anything else is one common noun
Tokenize(name) ==
    IF name = <<"ta", "naka", "tai", "ro">>
    THEN << [surface |-> <<"ta", "naka">>, person |-> TRUE, sub |-> "sei"],
            [surface |-> <<"tai", "ro">>, person |-> TRUE, sub |-> "mei"] >>
    ELSE IF name = <<"yama", "ta", "hana", "ko">>
    THEN << [surface |-> <<"yama", "ta">>, person |-> TRUE, sub |-> "sei"],
            [surface |-> <<"hana", "ko">>, person |-> TRUE, sub |-> "mei"] >>
    ELSE IF name \in {<<"ta", "naka">>, <<"yama", "ta">>, <<"suzu", "moku">>, <<"kane", "ko">>}
    THEN << [surface |-> name, person |-> TRUE, sub |-> "sei"] >>
    ELSE IF name = Empty THEN <<>>
    ELSE << [surface |-> name, person |-> FALSE, sub |-> "other"] >>

\* _KATAKANA_GIVEN_NAMES
KatakanaGivenNames == {<<"Ha", "Na">>}

RECURSIVE NameChars(_, _)
\* name_chars: the characters of the first n tokens that are person-name tokens
NameChars(tokens, n) ==
    IF n = 0 THEN 0
    ELSE (IF tokens[n].person THEN Len(tokens[n].surface) ELSE 0) + NameChars(tokens, n - 1)

\* _sudachi_has_person_name(name), given the tokens the analyzer returns
PersonNameTokens(name, tokens) ==
    LET persons    == {i \in 1..Len(tokens) : tokens[i].person}
        name_chars == NameChars(tokens, Len(tokens))
        has_multi_char_token == \E i \in persons : Len(tokens[i].surface) >= 2
        has_surname == \E i \in persons : tokens[i].sub = "sei"
    IN  \/ name \in KatakanaGivenNames
        \/ /\ 2 * name_chars >= Len(name)
           /\ has_multi_char_token
           /\ ~(~has_surname /\ Len(name) <= 2)

\* _sudachi_has_person_name(name) with the dictionary of Tokenize
SudachiHasPersonName(name) == PersonNameTokens(name, Tokenize(name))

\* the characters the heuristic fallback rejects anywhere in a name
HeuristicReject == {"getsu", "kurai"}

\* the office suffixes the heuristic fallback rejects at the end of a name
HeuristicOfficeSuffix == {"ka", "jo"}

\* the particles the heuristic fallback rejects in a name longer than 3
HeuristicParticles == {"no", "wo"}

\* the heuristic fallback of is_plausible_name
HeuristicName(name) ==
    /\ \A i \in 1..Len(name) : name[i] \notin HeuristicReject
    /\ ~(name[Len(name)] \in HeuristicOfficeSuffix /\ Len(name) > 2)
    /\ ~(Len(name) > 3 /\ \E i \in 1..Len(name) : name[i] \in HeuristicParticles)
    /\ ~(\A i \in 1..Len(name) : name[i] \in KanjiNums)

\* PlausibleName without the lower length bound
PlausibleName_NoMinLength(name0, analyzer, tokens) ==
    LET name == Strip(name0)
    IN  /\ name # Empty
        /\ Len(name) <= 8
        /\ 5 * CountIn(name, CjkOrKatakana) >= 4 * Len(name)
        /\ IF analyzer THEN PersonNameTokens(name, tokens) ELSE HeuristicName(name)

\* is_plausible_name(name), given whether the analyzer is loaded and the
\* tokens it returns for the trimmed name
PlausibleName(name0, analyzer, tokens) ==
    LET name == Strip(name0)
    IN  /\ name0 # Empty
        /\ Len(name) >= 2
        /\ Len(name) <= 8
        /\ 5 * CountIn(name, CjkOrKatakana) >= 4 * Len(name)
        /\ IF analyzer THEN PersonNameTokens(name, tokens) ELSE HeuristicName(name)

\* is_plausible_name(name) with the dictionary of Tokenize
IsPlausibleName(name0, analyzer) == PlausibleName(name0, analyzer, Tokenize(Strip(name0)))

\* surname_blocklist of classify_gender_legacy
BlocklistLegacy == {<<"kane", "ko">>}

\* the feminine endings of classify_gender_legacy
FemaleEndingsLegacy == {"ko", "mi"}

\* surname_blocklist of classify_gender_modern
BlocklistModern == {<<"kane", "ko">>, <<"hira", "ko">>}

\* the alternatives 婦$ and ^[小]?[佐]?[美] of female_kanji_pat
FemaleAffix(name) ==
    \/ name[Len(name)] = "fu"
    \/ name[1] = "mi"
    \/ Len(name) >= 2 /\ name[1] \in {"chi", "sa"} /\ name[2] = "mi"
    \/ Len(name) >= 3 /\ name[1] = "chi" /\ name[2] = "sa" /\ name[3] = "mi"

\* the feminine endings of classify_gender_modern
FemaleEndingsModern == {"ko", "mi", "hana"}

\* katakana_female of classify_gender_modern
KatakanaFemale == {<<"Ha", "Na">>}

\* classify_gender_legacy(name)
ClassifyGenderLegacy(name0) ==
    LET name == Strip(name0)
    IN  IF name = Empty THEN ""
        ELSE IF name \in BlocklistLegacy THEN "male"
        ELSE IF name[Len(name)] \in FemaleEndingsLegacy \/ FemaleAffix(name) THEN "female"
        ELSE "male"

\* ClassifyGenderModern with the feminine pattern tested before the blocklist
ClassifyGenderModern_PatternFirst(name0) ==
    LET name == Strip(name0)
    IN  IF name = Empty THEN ""
        ELSE IF name[Len(name)] \in FemaleEndingsModern \/ FemaleAffix(name) THEN "female"
        ELSE IF name \in BlocklistModern THEN "male"
        ELSE IF Len(name) = 2 /\ name \in KatakanaFemale THEN "female"
        ELSE IF Len(name) > 2 /\ SubSeq(name, Len(name) - 1, Len(name)) \in KatakanaFemale
             THEN "female"
        ELSE "male"

\* classify_gender_modern(name)
ClassifyGenderModern(name0) ==
    LET name == Strip(name0)
    IN  IF name = Empty THEN ""
        ELSE IF name \in BlocklistModern THEN "male"
        ELSE IF name[Len(name)] \in FemaleEndingsModern \/ FemaleAffix(name) THEN "female"
        ELSE IF Len(name) = 2 /\ name \in KatakanaFemale THEN "female"
        ELSE IF Len(name) > 2 /\ SubSeq(name, Len(name) - 1, Len(name)) \in KatakanaFemale
             THEN "female"
        ELSE "male"

----------------------------------------------------------------------------
(* Input rows: the stage-1 CSV read by compile_tokyo_dataframe.main *)

\* an optional argument that was not given
None == <<>>

\* a numeric cell that is missing: pandas reads it as the float NaN
NoNumber == <<>>

\* a row of the input CSV; a missing text cell reads as NaN, a numeric cell
\* is <<n>> or NoNumber
Row(name, position, raw_text, folder) ==
    [name |-> name, position |-> position, raw_text |-> raw_text, folder |-> <<folder>>,
     salary |-> NaN, rank |-> NaN, grade |-> NaN]

\* the position titles of the crosswalk
KnownPositions ==
    {<<"ka", "cho">>, <<"shu", "ji">>, <<"gi", "shi">>, <<"sho", "ki">>}

\* the office headers the crosswalk flags
HeadersSet == {<<"toku", "zei">>, <<"(", "toku", "zei">>}

\* 所得税課: an office header
RowOffice == Row(<<"jo", "toku", "zei", "ka">>, Unknown, <<"jo", "toku", "zei", "ka">>, 1)

\* 書記課 on page 2: an office header
RowOffice2 == Row(<<"sho", "ki", "ka">>, Unknown, <<"sho", "ki", "ka">>, 2)

\* 課長: a standalone position header (stage 1 matched the title, no name left)
RowKacho == Row(NaN, <<"ka", "cho">>, <<"ka", "cho">>, 1)

\* 書記: a standalone position header (stage 1 left the title as the name)
RowShoki == Row(<<"sho", "ki">>, Unknown, <<"sho", "ki">>, 1)

\* 田中太郎: a name line
RowTanakaTaro ==
    Row(<<"ta", "naka", "tai", "ro">>, Unknown, <<"ta", "naka", "tai", "ro">>, 1)

\* 書記山田鈴木: one line, two extracted names, explicit position
RowShokiYamada ==
    Row(<<"yama", "ta">>, <<"sho", "ki">>, <<"sho", "ki", "yama", "ta", "suzu", "moku">>, 1)

RowShokiSuzuki ==
    Row(<<"suzu", "moku">>, <<"sho", "ki">>, <<"sho", "ki", "yama", "ta", "suzu", "moku">>, 1)

\* 山田鈴木: one line, two extracted names, no position
RowYamada == Row(<<"yama", "ta">>, Unknown, <<"yama", "ta", "suzu", "moku">>, 1)

RowSuzuki == Row(<<"suzu", "moku">>, Unknown, <<"yama", "ta", "suzu", "moku">>, 1)

\* 課長田中: a person with an explicit single-person title
RowKachoTanaka == Row(<<"ta", "naka">>, <<"ka", "cho">>, <<"ka", "cho", "ta", "naka">>, 1)

\* 主事鈴木 on page 2
RowShujiSuzuki == Row(<<"suzu", "moku">>, <<"shu", "ji">>, <<"shu", "ji", "suzu", "moku">>, 2)

\* 應召中: a draft marker on a line of its own
RowDraft == Row(<<"ou", "meshi", "naka">>, Unknown, <<"ou", "meshi", "naka">>, 1)

\* ABC課: Latin-dominated, and an office header by its ending
RowLatin == Row(<<"A", "B", "R", "ka">>, Unknown, <<"A", "B", "R", "ka">>, 1)

\* AB: Latin only, three characters or fewer
RowLatinShort == Row(<<"A", "B">>, Unknown, <<"A", "B">>, 1)

\* 田中月七五: a name with an embedded salary
RowSalary ==
    Row(<<"ta", "naka", "getsu", "nana", "go">>, Unknown,
        <<"ta", "naka", "getsu", "nana", "go">>, 1)

\* a row whose cells are all missing
RowMissing == [Row(NaN, NaN, NaN, 1) EXCEPT !.folder = NoNumber]

\* 書記課 in the position cell and no name: an office header by its ending
\* and a standalone position header by its cells
RowOfficeTitle == Row(NaN, <<"sho", "ki", "ka">>, <<"sho", "ki", "ka">>, 1)

\* 田: a one-character name, no title matched
RowOneChar == Row(<<"ta">>, Unknown, <<"ta">>, 1)

\* an empty line as stage 1 writes it: no title matched, no name, no text
RowNoName == Row(NaN, Unknown, NaN, 1)

\* ◎得税: a crosswalk header behind a circle symbol
RowCircleHeader == Row(<<"maru", "toku", "zei">>, Unknown, <<"maru", "toku", "zei">>, 1)

\* (得税: a crosswalk header that begins with a bracket
RowBracketHeader == Row(<<"(", "toku", "zei">>, Unknown, <<"(", "toku", "zei">>, 1)

\* ABRT書記: Latin-dominated, and a standalone position header by its name
RowLatinTitle == Row(<<"sho", "ki">>, Unknown, <<"A", "B", "R", "T", "sho", "ki">>, 1)

\* 山田花子, a feminine given name, on page 1000000
RowFarPage ==
    Row(<<"yama", "ta", "hana", "ko">>, Unknown, <<"yama", "ta", "hana", "ko">>, 1000000)

RowPool ==
    {RowOffice, RowOffice2, RowKacho, RowShoki, RowTanakaTaro, RowShokiYamada, RowShokiSuzuki,
     RowYamada, RowSuzuki, RowKachoTanaka, RowShujiSuzuki, RowDraft, RowLatin,
     RowLatinShort, RowSalary, RowMissing, RowOfficeTitle, RowOneChar, RowNoName,
     RowCircleHeader, RowBracketHeader, RowLatinTitle, RowFarPage}

\* the command lines and environments a run may be started with: a page
\* range or none, v2 or v1 input columns, the analyzer loaded or not
RunConfigs ==
    {[start_page |-> None, end_page |-> None, v2 |-> TRUE, sudachi |-> TRUE],
     [start_page |-> None, end_page |-> None, v2 |-> FALSE, sudachi |-> FALSE],
     [start_page |-> <<2>>, end_page |-> None, v2 |-> TRUE, sudachi |-> TRUE],
     [start_page |-> None, end_page |-> <<1>>, v2 |-> TRUE, sudachi |-> TRUE]}

----------------------------------------------------------------------------
(* Stage 1: match_position of process_tokyo_directory.py *)

\* the numerals of GRADE_RE
GradeNums == {"nana", "go"}

\* the grade suffixes of GRADE_RE
GradeSuffix == {"ue", "naka"}

RECURSIVE GradeRun(_, _)
\* number of leading numerals of text from position i on
GradeRun(text, i) ==
    IF i <= Len(text) /\ text[i] \in GradeNums THEN GradeRun(text, i + 1) ELSE i - 1

\* length of the match of GRADE_RE at the start of text, 0 when there is none
GradeMatch(text) ==
    LET n == GradeRun(text, 1)
    IN  IF n >= 1 /\ n < Len(text) /\ text[n + 1] \in GradeSuffix THEN n + 1 ELSE 0

\* BetterMatch without the length comparison: the first matching title wins
BetterMatch_FirstWins(title, best_match) == best_match = None

\* the test that makes title the new best_match
BetterMatch(title, best_match) ==
    best_match = None \/ Len(title) > Len(best_match)

\* one iteration of the loop over known_titles
ScanTitle(text, title, best_match) ==
    IF StartsWith(text, title) /\ BetterMatch(title, best_match)
    THEN title
    ELSE best_match

\* the titles a run of match_position may be given
TitlePool == {<<"gi", "shi">>, <<"gi", "shi", "cho">>, <<"sho", "ki">>}

\* the texts a run of match_position may be given
TextPool ==
    {<<"gi", "shi", "cho", "ta", "naka">>,
     <<"gi", "shi", "ta", "naka">>,
     <<"gi", "shi", "cho">>,
     <<"sho", "ki", " ", "yama", "ta">>,
     <<"nana", "ue", "gi", "shi", "cho", "ta", "naka">>,
     <<"nana", "ue", "ta", "naka">>,
     <<"ta", "naka">>,
     Empty}

\* the orders in which the set known_titles may be iterated
Orders(titles) ==
    {o \in UNION {[1..n -> titles] : n \in {Cardinality(titles)}} :
        \A i, j \in 1..Len(o) : i # j => o[i] # o[j]}

----------------------------------------------------------------------------
(* State of compile_tokyo_dataframe.main *)

VARIABLES
    start_page,             \* args.start_page, None when not given
    end_page,               \* args.end_page, None when not given
    has_v2_columns,         \* the input has grade, salary and rank columns
    sudachi,                \* the morphological analyzer was loaded
    df,                     \* the rows the loop has read so far, in order
    outcome,                \* how each row read so far left the loop body
    compiled_rows,
    current_office,
    current_position,
    position_person_count,
    n_noise_filtered,
    n_page_filtered,
    n_position_headers,
    n_position_propagated,
    m_text,                 \* match_position: its text argument
    m_titles,               \* known_titles, in the order the loop iterates it
    m_pc,                   \* "idle", "direct", "grade", "done"
    m_i,                    \* number of titles the current loop has seen
    m_best,                 \* best_match
    m_result,               \* <<position, grade, remaining>> once returned
    t_text,                 \* the text a classifier is called with
    t_fn,                   \* the classifier that was called, "none" before
    t_out,                  \* what it returned
    s_lines,                \* sort_lines_by_columns: its lines argument
    s_pc,                   \* "idle", "start", "place", "columns", "emit", "done"
    s_sorted,               \* lines_sorted_x
    s_k,                    \* number of lines placed in a column
    s_columns,              \* columns
    s_c,                    \* number of columns sorted and emitted
    s_final,                \* final_sorted
    n_tokens,               \* extract_names: the tokens of its text
    n_pc,                   \* "idle", "loop", "done"
    n_i,                    \* number of tokens the loop has seen
    n_names,                \* names, each with the tags of its tokens
    n_temp,                 \* temp_name
    n_has_given,            \* has_given_name
    p_file,                 \* the lines of inference_divide.py on disk
    p_script,               \* the patch script that is running, "none" when none is
    p_i,                    \* number of lines the loop has read
    p_new,                  \* new_lines
    p_skip,                 \* skip_mode
    p_runs                  \* the scripts run so far, each with the file it wrote

vars ==
    <<start_page, end_page, has_v2_columns, sudachi, df, outcome, compiled_rows,
      current_office, current_position, position_person_count, n_noise_filtered,
      n_page_filtered, n_position_headers, n_position_propagated,
      m_text, m_titles, m_pc, m_i, m_best, m_result, t_text, t_fn, t_out,
      s_lines, s_pc, s_sorted, s_k, s_columns, s_c, s_final,
      n_tokens, n_pc, n_i, n_names, n_temp, n_has_given,
      p_file, p_script, p_i, p_new, p_skip, p_runs>>

mvars == <<m_text, m_titles, m_pc, m_i, m_best, m_result>>

cvars ==
    <<start_page, end_page, has_v2_columns, sudachi, df, outcome, compiled_rows,
      current_office, current_position, position_person_count, n_noise_filtered,
      n_page_filtered, n_position_headers, n_position_propagated>>

tvars == <<t_text, t_fn, t_out>>

svars == <<s_lines, s_pc, s_sorted, s_k, s_columns, s_c, s_final>>

nvars == <<n_tokens, n_pc, n_i, n_names, n_temp, n_has_given>>

pvars == <<p_file, p_script, p_i, p_new, p_skip, p_runs>>

\* the variables of the functions that run outside main and match_position
xvars == <<tvars, svars, nvars, pvars>>

args == <<start_page, end_page, has_v2_columns, sudachi>>

counters == <<n_noise_filtered, n_page_filtered, n_position_headers, n_position_propagated>>

\* match_position is not running
MatchIdle ==
    /\ m_text = Empty
    /\ m_titles = <<>>
    /\ m_pc = "idle"
    /\ m_i = 0
    /\ m_best = None
    /\ m_result = <<>>

\* the compile loop before its first row, for a given command line
CompileStart ==
    /\ df = <<>>
    /\ outcome = <<>>
    /\ compiled_rows = <<>>
    /\ current_office = UnknownOffice
    /\ current_position = Unknown
    /\ position_person_count = 0
    /\ n_noise_filtered = 0
    /\ n_page_filtered = 0
    /\ n_position_headers = 0
    /\ n_position_propagated = 0

\* no classifier is called on its own
TextIdle ==
    /\ t_text = Empty
    /\ t_fn = "none"
    /\ t_out = FALSE

\* sort_lines_by_columns is not running
SortIdle ==
    /\ s_lines = <<>>
    /\ s_pc = "idle"
    /\ s_sorted = <<>>
    /\ s_k = 0
    /\ s_columns = <<>>
    /\ s_c = 0
    /\ s_final = <<>>

\* extract_names is not running
NamesIdle ==
    /\ n_tokens = <<>>
    /\ n_pc = "idle"
    /\ n_i = 0
    /\ n_names = <<>>
    /\ n_temp = <<>>
    /\ n_has_given = FALSE

\* no patch script is running, and there is no file to patch
PatchIdle ==
    /\ p_file = <<>>
    /\ p_script = "none"
    /\ p_i = 0
    /\ p_new = <<>>
    /\ p_skip = FALSE
    /\ p_runs = <<>>

\* nothing runs outside main and match_position
OthersIdle == TextIdle /\ SortIdle /\ NamesIdle /\ PatchIdle

Init ==
    /\ MatchIdle
    /\ OthersIdle
    /\ \E c \in RunConfigs :
          /\ start_page = c.start_page
          /\ end_page = c.end_page
          /\ has_v2_columns = c.v2
          /\ sudachi = c.sudachi
    /\ CompileStart

----------------------------------------------------------------------------
(* The loop body, step by step *)

\* raw_name and raw_pos of the loop
RawName(row) == Cell(row.name)

RawPos(row) == Cell(row.position)

RawText(row) == Cell(row.raw_text)

\* use_page_range
UsePageRange == start_page # None \/ end_page # None

\* start_pg
StartPg == IF start_page # None THEN start_page[1] ELSE 0

\* end_pg
EndPg == IF end_page # None THEN end_page[1] ELSE 999999

\* int(row.get('folder', 0)) raises ValueError on a missing cell
PageNumRaises(row) == row.folder = NoNumber

\* page_num, when the conversion succeeds
PageNum(row) == row.folder[1]

\* step 0a: the row lies outside the page range
PageFilteredRow(row) ==
    UsePageRange /\ (PageNum(row) < StartPg \/ PageNum(row) > EndPg)

\* step 1: <<the row is an office header, the text that becomes the office>>
OfficeHeader(row) ==
    IF IsHeaderCandidate(RawName(row), HeadersSet) THEN <<TRUE, RawName(row)>>
    ELSE IF RawPos(row) # Empty /\ IsHeaderCandidate(RawPos(row), HeadersSet)
         THEN <<TRUE, RawPos(row)>>
    ELSE IF /\ RawText(row) # Empty /\ RawName(row) = Empty /\ RawPos(row) = Empty
            /\ IsHeaderCandidate(RawText(row), HeadersSet)
         THEN <<TRUE, RawText(row)>>
    ELSE <<FALSE, Empty>>

\* PositionAfterOffice restarting the count of the current position
PositionAfterOffice_ResetCount(position, count) == <<position, 0>>

\* the position state an office header leaves: <<current_position, count>>
PositionAfterOffice(position, count) == <<position, count>>

\* PositionAfterHeader leaving the default position
PositionAfterHeader_Unknown(detected_pos) == <<Unknown, 0>>

\* PositionAfterHeader counting the header itself as the first holder
PositionAfterHeader_CountOne(detected_pos) == <<detected_pos, 1>>

\* the position state a standalone position header leaves
PositionAfterHeader(detected_pos) == <<detected_pos, 0>>

\* PersonPosition counting an explicit position on top of the earlier count
PersonPosition_ExplicitCountsOn(raw_pos, position, count) ==
    IF raw_pos # Empty /\ raw_pos # Unknown
    THEN <<raw_pos, raw_pos, count + 1, 0>>
    ELSE IF position # Unknown
    THEN IF position \in SinglePersonPositions /\ count >= 1
         THEN <<Unknown, position, count, 0>>
         ELSE <<position, position, count + 1, 1>>
    ELSE <<Unknown, position, count, 0>>

\* PersonPosition without the single-person rule
PersonPosition_AlwaysPropagate(raw_pos, position, count) ==
    IF raw_pos # Empty /\ raw_pos # Unknown
    THEN <<raw_pos, raw_pos, 1, 0>>
    ELSE IF position # Unknown
    THEN <<position, position, count + 1, 1>>
    ELSE <<Unknown, position, count, 0>>

\* PersonPosition applying the single-person rule to every title
PersonPosition_EveryTitleSingle(raw_pos, position, count) ==
    IF raw_pos # Empty /\ raw_pos # Unknown
    THEN <<raw_pos, raw_pos, 1, 0>>
    ELSE IF position # Unknown
    THEN IF count >= 1
         THEN <<Unknown, position, count, 0>>
         ELSE <<position, position, count + 1, 1>>
    ELSE <<Unknown, position, count, 0>>

\* step 3: <<effective_pos, current_position, position_person_count, propagated>>
PersonPosition(raw_pos, position, count) ==
    IF raw_pos # Empty /\ raw_pos # Unknown
    THEN <<raw_pos, raw_pos, 1, 0>>
    ELSE IF position # Unknown
    THEN IF position \in SinglePersonPositions /\ count >= 1
         THEN <<Unknown, position, count, 0>>
         ELSE <<position, position, count + 1, 1>>
    ELSE <<Unknown, position, count, 0>>

\* is_drafted
IsDrafted(raw_text) == \E k \in DraftKeywords : Contains(raw_text, k)

\* <<clean_name, salary, rank, grade>> of a person row
NameAndMetadata(row, v2) ==
    IF v2
    THEN <<RawName(row), Cell(row.salary), Cell(row.rank), Cell(row.grade)>>
    ELSE ParseMetadataFallback(RawName(row)) \o <<Empty>>

\* EntryRecord keeping the office column of the input, 'Unknown Office'
EntryRecord_InputOffice(row, office, effective_pos, m, name_flag) ==
    [office        |-> UnknownOffice,
     position      |-> effective_pos,
     grade         |-> m[4],
     name          |-> m[1],
     is_name       |-> name_flag,
     drafted       |-> IsDrafted(RawText(row)),
     gender_legacy |-> IF name_flag THEN ClassifyGenderLegacy(m[1]) ELSE "",
     gender_modern |-> IF name_flag THEN ClassifyGenderModern(m[1]) ELSE "",
     salary        |-> m[2],
     rank          |-> m[3],
     page          |-> row.folder]

\* EntryRecord with the gender columns filled in whatever name_flag says
EntryRecord_GenderAlways(row, office, effective_pos, m, name_flag) ==
    [office        |-> office,
     position      |-> effective_pos,
     grade         |-> m[4],
     name          |-> m[1],
     is_name       |-> name_flag,
     drafted       |-> IsDrafted(RawText(row)),
     gender_legacy |-> ClassifyGenderLegacy(m[1]),
     gender_modern |-> ClassifyGenderModern(m[1]),
     salary        |-> m[2],
     rank          |-> m[3],
     page          |-> row.folder]

\* the entry of a person row, from its name, metadata and name_flag
EntryRecord(row, office, effective_pos, m, name_flag) ==
    [office        |-> office,
     position      |-> effective_pos,
     grade         |-> m[4],
     name          |-> m[1],
     is_name       |-> name_flag,
     drafted       |-> IsDrafted(RawText(row)),
     gender_legacy |-> IF name_flag THEN ClassifyGenderLegacy(m[1]) ELSE "",
     gender_modern |-> IF name_flag THEN ClassifyGenderModern(m[1]) ELSE "",
     salary        |-> m[2],
     rank          |-> m[3],
     page          |-> row.folder]

\* the entry, once name and metadata are known: name_flag is computed
EntryFor(row, office, effective_pos, m, analyzer) ==
    EntryRecord(row, office, effective_pos, m, IsPlausibleName(m[1], analyzer))

\* the entry appended for a person row
Entry(row, office, effective_pos, v2, analyzer) ==
    EntryFor(row, office, effective_pos, NameAndMetadata(row, v2), analyzer)

\* RowKind with the office-header test ahead of the noise filter
RowKind_OfficeBeforeNoise(row) ==
    IF OfficeHeader(row)[1] THEN "office"
    ELSE IF IsLikelyNoise(row) THEN "noise"
    ELSE IF IsPositionOnlyRow(row, KnownPositions)[1] THEN "position"
    ELSE IF RawName(row) # Empty \/ RawPos(row) # Empty THEN "person"
    ELSE "skip"

\* RowKind with the position-header test ahead of the office-header test
RowKind_PositionBeforeOffice(row) ==
    IF IsLikelyNoise(row) THEN "noise"
    ELSE IF IsPositionOnlyRow(row, KnownPositions)[1] THEN "position"
    ELSE IF OfficeHeader(row)[1] THEN "office"
    ELSE IF RawName(row) # Empty \/ RawPos(row) # Empty THEN "person"
    ELSE "skip"

\* steps 0b to 3: the branch of the loop body that consumes a row inside the
\* page range; the tests run in this order and the first that holds ends
\* the iteration
RowKind(row) ==
    IF IsLikelyNoise(row) THEN "noise"
    ELSE IF OfficeHeader(row)[1] THEN "office"
    ELSE IF IsPositionOnlyRow(row, KnownPositions)[1] THEN "position"
    ELSE IF RawName(row) # Empty \/ RawPos(row) # Empty THEN "person"
    ELSE "skip"

\* RowKind of every row of the pool
KindOf == [row \in RowPool |-> RowKind(row)]

\* the branch of the loop body that consumes the row: step 0a comes first
Branch(row) ==
    IF UsePageRange /\ PageNumRaises(row) THEN "raise"
    ELSE IF PageFilteredRow(row) THEN "page"
    ELSE KindOf[row]

\* the loop is still iterating: rows are left and no exception ended the run
Running ==
    /\ Len(df) < MaxRows
    /\ \A i \in 1..Len(outcome) : outcome[i] # "raise"

\* the loop reads one more row
Read(row, how) ==
    /\ df' = Append(df, row)
    /\ outcome' = Append(outcome, how)
    /\ UNCHANGED <<args, mvars, xvars>>

\* step 0a, the conversion of the page number fails: the exception is not
\* caught and ends the run
Raise(row) ==
    /\ Running
    /\ Branch(row) = "raise"
    /\ Read(row, "raise")
    /\ UNCHANGED <<compiled_rows, current_office, current_position,
                   position_person_count, counters>>

\* step 0a
PageFilter(row) ==
    /\ Running
    /\ Branch(row) = "page"
    /\ Read(row, "page")
    /\ n_page_filtered' = n_page_filtered + 1
    /\ UNCHANGED <<compiled_rows, current_office, current_position,
                   position_person_count, n_noise_filtered, n_position_headers,
                   n_position_propagated>>

\* step 0b
NoiseFilter(row) ==
    /\ Running
    /\ Branch(row) = "noise"
    /\ Read(row, "noise")
    /\ n_noise_filtered' = n_noise_filtered + 1
    /\ UNCHANGED <<compiled_rows, current_office, current_position,
                   position_person_count, n_page_filtered, n_position_headers,
                   n_position_propagated>>

\* step 1
Office(row) ==
    /\ Running
    /\ Branch(row) = "office"
    /\ Read(row, "office")
    /\ current_office' = OfficeHeader(row)[2]
    /\ current_position' = PositionAfterOffice(current_position, position_person_count)[1]
    /\ position_person_count' = PositionAfterOffice(current_position, position_person_count)[2]
    /\ UNCHANGED <<compiled_rows, counters>>

\* step 2
PositionHeader(row) ==
    /\ Running
    /\ Branch(row) = "position"
    /\ Read(row, "position")
    /\ current_position' = PositionAfterHeader(IsPositionOnlyRow(row, KnownPositions)[2])[1]
    /\ position_person_count' = PositionAfterHeader(IsPositionOnlyRow(row, KnownPositions)[2])[2]
    /\ n_position_headers' = n_position_headers + 1
    /\ UNCHANGED <<compiled_rows, current_office, n_noise_filtered, n_page_filtered,
                   n_position_propagated>>

\* step 3
Person(row) ==
    /\ Running
    /\ Branch(row) = "person"
    /\ Read(row, "person")
    /\ LET p == PersonPosition(RawPos(row), current_position, position_person_count)
       IN  /\ current_position' = p[2]
           /\ position_person_count' = p[3]
           /\ n_position_propagated' = n_position_propagated + p[4]
           /\ compiled_rows' =
                  Append(compiled_rows,
                         Entry(row, current_office, p[1], has_v2_columns, sudachi))
    /\ UNCHANGED <<current_office, n_noise_filtered, n_page_filtered, n_position_headers>>

\* a row that is none of the above falls through the loop body
Skip(row) ==
    /\ Running
    /\ Branch(row) = "skip"
    /\ Read(row, "skip")
    /\ UNCHANGED <<compiled_rows, current_office, current_position,
                   position_person_count, counters>>

\* the rows df.iterrows() may yield next: any row of the pool while the loop
\* is iterating
NextRows == IF Running THEN RowPool ELSE {}

Next ==
    \/ \E row \in NextRows : Raise(row)
    \/ \E row \in NextRows : PageFilter(row)
    \/ \E row \in NextRows : NoiseFilter(row)
    \/ \E row \in NextRows : Office(row)
    \/ \E row \in NextRows : PositionHeader(row)
    \/ \E row \in NextRows : Person(row)
    \/ \E row \in NextRows : Skip(row)

Spec == Init /\ [][Next]_vars

----------------------------------------------------------------------------
(* match_position, one loop iteration at a time *)

InitMatch ==
    /\ start_page = None /\ end_page = None
    /\ has_v2_columns = TRUE
    /\ sudachi = TRUE
    /\ CompileStart
    /\ OthersIdle
    /\ m_text \in TextPool
    /\ \E titles \in SUBSET TitlePool : m_titles \in Orders(titles)
    /\ m_pc = "direct"
    /\ m_i = 0
    /\ m_best = None
    /\ m_result = <<>>

\* the text the running loop matches titles against
MatchSubject ==
    IF m_pc = "grade"
    THEN SubSeq(m_text, GradeMatch(m_text) + 1, Len(m_text))
    ELSE m_text

\* "if not text": nothing to match
MatchEmpty ==
    /\ m_pc = "direct" /\ m_i = 0 /\ m_text = Empty
    /\ m_pc' = "done"
    /\ m_result' = <<Unknown, Empty, m_text>>
    /\ UNCHANGED <<m_text, m_titles, m_i, m_best, cvars, xvars>>

\* one iteration of either loop over known_titles
MatchScan ==
    /\ m_pc \in {"direct", "grade"}
    /\ m_text # Empty
    /\ m_i < Len(m_titles)
    /\ m_i' = m_i + 1
    /\ m_best' = ScanTitle(MatchSubject, m_titles[m_i + 1], m_best)
    /\ UNCHANGED <<m_text, m_titles, m_pc, m_result, cvars, xvars>>

\* MatchFound returning no grade from the second loop either
MatchFound_DropGrade ==
    /\ m_pc \in {"direct", "grade"}
    /\ m_text # Empty
    /\ m_i = Len(m_titles)
    /\ m_best # Empty
    /\ m_pc' = "done"
    /\ m_result' =
           <<m_best,
             Empty,
             Strip(SubSeq(MatchSubject, Len(m_best) + 1, Len(MatchSubject)))>>
    /\ UNCHANGED <<m_text, m_titles, m_i, m_best, cvars, xvars>>

\* a loop has ended with a match: return it
MatchFound ==
    /\ m_pc \in {"direct", "grade"}
    /\ m_text # Empty
    /\ m_i = Len(m_titles)
    /\ m_best # Empty
    /\ m_pc' = "done"
    /\ m_result' =
           <<m_best,
             IF m_pc = "grade" THEN SubSeq(m_text, 1, GradeMatch(m_text)) ELSE Empty,
             Strip(SubSeq(MatchSubject, Len(m_best) + 1, Len(MatchSubject)))>>
    /\ UNCHANGED <<m_text, m_titles, m_i, m_best, cvars, xvars>>

\* the direct loop found nothing and the text starts with a grade: second loop
MatchGrade ==
    /\ m_pc = "direct"
    /\ m_text # Empty
    /\ m_i = Len(m_titles)
    /\ m_best = Empty
    /\ GradeMatch(m_text) > 0
    /\ m_pc' = "grade"
    /\ m_i' = 0
    /\ m_best' = None
    /\ UNCHANGED <<m_text, m_titles, m_result, cvars, xvars>>

\* no match at all
MatchNone ==
    /\ m_pc \in {"direct", "grade"}
    /\ m_text # Empty
    /\ m_i = Len(m_titles)
    /\ m_best = Empty
    /\ m_pc = "direct" => GradeMatch(m_text) = 0
    /\ m_pc' = "done"
    /\ m_result' = <<Unknown, Empty, m_text>>
    /\ UNCHANGED <<m_text, m_titles, m_i, m_best, cvars, xvars>>

NextMatch ==
    \/ MatchEmpty
    \/ MatchScan
    \/ MatchFound
    \/ MatchGrade
    \/ MatchNone

SpecMatch == InitMatch /\ [][NextMatch]_vars

----------------------------------------------------------------------------
(* The classifiers called on their own, on one text each *)

\* longest run of filler characters in a text the classifiers are given
MaxPad == 14

\* n filler characters 田
Pad(n) == [i \in 1..n |-> "ta"]

\* how a text may begin: nothing, a circle symbol, a bracket, a blank, or an
\* ASCII letter
TextLeads == {Empty, <<"maru">>, <<"(">>, <<" ">>, <<"A">>}

\* how a text may end: office endings, 長, blocklisted surnames, feminine
\* endings and affixes, a katakana given name, a crosswalk header
TextTails ==
    {Empty, <<"ka">>, <<"cho">>, <<"ka", "cho">>, <<"ka", " ">>, <<"naka">>,
     <<"kane", "ko">>, <<"hira", "ko">>, <<"hana", "ko">>, <<"Ha", "Na">>,
     <<"fu">>, <<"mi">>, <<"toku", "zei">>}

\* names of the dictionary and names that begin with the 美 pattern
TextNames ==
    {<<"ta", "naka", "tai", "ro">>, <<"yama", "ta", "hana", "ko">>, <<"suzu", "moku">>,
     <<"mi", "naka">>, <<"chi", "mi", "naka">>, <<"chi", "sa", "mi", "naka">>}

\* the texts a classifier may be called with
TextInputs ==
    TextNames \cup
    {lead \o Pad(n) \o tail : lead \in TextLeads, n \in 0..MaxPad, tail \in TextTails}

\* the part-of-speech tags a token may carry: surname, given name, no name
TokenTags ==
    {[person |-> TRUE, sub |-> "sei"], [person |-> TRUE, sub |-> "mei"],
     [person |-> FALSE, sub |-> "other"]}

\* a token of the analyzer
Token(surface, tag) == [surface |-> surface, person |-> tag.person, sub |-> tag.sub]

\* what the analyzer may return for a name: one token or two, of any tag
Tokenisations(name) ==
    IF name = Empty THEN {<<>>}
    ELSE {<<Token(name, a)>> : a \in TokenTags} \cup
         {<<Token(SubSeq(name, 1, k), a), Token(SubSeq(name, k + 1, Len(name)), b)>> :
             k \in 1..(Len(name) - 1), a \in TokenTags, b \in TokenTags}

InitText ==
    /\ start_page = None /\ end_page = None
    /\ has_v2_columns = TRUE
    /\ sudachi \in BOOLEAN
    /\ CompileStart
    /\ MatchIdle
    /\ SortIdle
    /\ NamesIdle
    /\ PatchIdle
    /\ t_text \in TextInputs
    /\ t_fn = "none"
    /\ t_out = FALSE

\* a classifier returns
Return(fn, value) ==
    /\ t_fn = "none"
    /\ t_fn' = fn
    /\ t_out' = value
    /\ UNCHANGED <<t_text, cvars, mvars, svars, nvars, pvars>>

CallIsHeaderCandidate ==
    Return("is_header_candidate", IsHeaderCandidate(t_text, HeadersSet))

CallIsPlausibleName ==
    \E tokens \in Tokenisations(Strip(t_text)) :
        Return("is_plausible_name", PlausibleName(t_text, sudachi, tokens))

CallClassifyGenderLegacy ==
    Return("classify_gender_legacy", ClassifyGenderLegacy(t_text))

CallClassifyGenderModern ==
    Return("classify_gender_modern", ClassifyGenderModern(t_text))

NextText ==
    \/ CallIsHeaderCandidate
    \/ CallIsPlausibleName
    \/ CallClassifyGenderLegacy
    \/ CallClassifyGenderModern

SpecText == InitText /\ [][NextText]_vars

----------------------------------------------------------------------------
(* Stage 1: sort_lines_by_columns of process_tokyo_directory.py *)

\* number of lines on a page
MaxLines == 3

\* the default of the tolerance parameter
Tolerance == 30

\* the x, y and width values a line may have
LineXs == {0, 16, 40}

LineYs == {0, 1}

LineWs == {0, 60}

\* the n-th line of a page; id tells apart two lines of equal geometry
Line(n, x, y, w) == [id |-> n, x |-> x, y |-> y, w |-> w]

\* the pages of n lines
Pages(n) ==
    {p \in [1..n -> {Line(i, x, y, w) : i \in 1..n, x \in LineXs, y \in LineYs, w \in LineWs}] :
        \A i \in 1..n : p[i].id = i}

\* twice the x-centre of a line, line['x'] + line['w'] / 2
Centre2(line) == 2 * line.x + line.w

RECURSIVE SumCentre2(_)
\* twice sum(col_x_values)
SumCentre2(col) ==
    IF col = <<>> THEN 0 ELSE Centre2(Head(col)) + SumCentre2(Tail(col))

RECURSIVE SumX(_)
\* sum(l['x'] for l in col)
SumX(col) == IF col = <<>> THEN 0 ELSE Head(col).x + SumX(Tail(col))

\* |a|
Abs(a) == IF a < 0 THEN 0 - a ELSE a

\* Near measured from the first line of the column instead of its average
Near_FirstLine(line, col) ==
    Abs(Centre2(line) - Centre2(col[1])) < 2 * Tolerance

\* abs(center_x - avg_col_x) < tolerance, scaled by 2 * len(col)
Near(line, col) ==
    Abs(Centre2(line) * Len(col) - SumCentre2(col)) < 2 * Tolerance * Len(col)

\* index of the first column the line is near to, 0 when there is none
FirstNear(columns, line) ==
    LET hits == {i \in 1..Len(columns) : Near(line, columns[i])}
    IN  IF hits = {} THEN 0 ELSE CHOOSE i \in hits : \A j \in hits : i <= j

\* the columns after the line is placed
PlaceIn(columns, line) ==
    LET i == FirstNear(columns, line)
    IN  IF i = 0 THEN Append(columns, <<line>>)
        ELSE [columns EXCEPT ![i] = Append(@, line)]

RECURSIVE InsertBy(_, _, _)
\* e put into a sorted sequence, behind every element it does not come before
InsertBy(sorted, e, before) ==
    IF sorted = <<>> THEN <<e>>
    ELSE IF <<e, Head(sorted)>> \in before THEN <<e>> \o sorted
    ELSE <<Head(sorted)>> \o InsertBy(Tail(sorted), e, before)

RECURSIVE SortedBy(_, _)
\* the stable sort of Python: elements that compare equal keep their order
SortedBy(seq, before) ==
    IF seq = <<>> THEN <<>>
    ELSE InsertBy(SortedBy(SubSeq(seq, 1, Len(seq) - 1), before), seq[Len(seq)], before)

\* the elements of a sequence
Elems(seq) == {seq[i] : i \in 1..Len(seq)}

\* key=lambda e: e['x'], reverse=True
XDescending(lines) ==
    {pair \in Elems(lines) \X Elems(lines) : pair[1].x > pair[2].x}

\* ColumnOrder with the columns left to right
ColumnOrder_Ascending(columns) ==
    {pair \in Elems(columns) \X Elems(columns) :
        SumX(pair[1]) * Len(pair[2]) < SumX(pair[2]) * Len(pair[1])}

\* key=lambda col: sum(l['x'] for l in col) / len(col), reverse=True
ColumnOrder(columns) ==
    {pair \in Elems(columns) \X Elems(columns) :
        SumX(pair[1]) * Len(pair[2]) > SumX(pair[2]) * Len(pair[1])}

\* key=lambda l: l['y']
YAscending(col) ==
    {pair \in Elems(col) \X Elems(col) : pair[1].y < pair[2].y}

InitSort ==
    /\ start_page = None /\ end_page = None
    /\ has_v2_columns = TRUE
    /\ sudachi = TRUE
    /\ CompileStart
    /\ MatchIdle
    /\ TextIdle
    /\ NamesIdle
    /\ PatchIdle
    /\ \E n \in 0..MaxLines : s_lines \in Pages(n)
    /\ s_pc = "start"
    /\ s_sorted = <<>>
    /\ s_k = 0
    /\ s_columns = <<>>
    /\ s_c = 0
    /\ s_final = <<>>

\* "if not lines: return []"
SortEmpty ==
    /\ s_pc = "start"
    /\ s_lines = <<>>
    /\ s_pc' = "done"
    /\ UNCHANGED <<s_lines, s_sorted, s_k, s_columns, s_c, s_final, cvars, mvars, tvars, nvars, pvars>>

\* lines_sorted_x = sorted(lines, key=x, reverse=True)
SortByX ==
    /\ s_pc = "start"
    /\ s_lines # <<>>
    /\ s_sorted' = SortedBy(s_lines, XDescending(s_lines))
    /\ s_pc' = "place"
    /\ UNCHANGED <<s_lines, s_k, s_columns, s_c, s_final, cvars, mvars, tvars, nvars, pvars>>

\* one iteration of "for line in lines_sorted_x"
PlaceLine ==
    /\ s_pc = "place"
    /\ s_k < Len(s_sorted)
    /\ s_columns' = PlaceIn(s_columns, s_sorted[s_k + 1])
    /\ s_k' = s_k + 1
    /\ UNCHANGED <<s_lines, s_pc, s_sorted, s_c, s_final, cvars, mvars, tvars, nvars, pvars>>

\* columns.sort(key=average x, reverse=True)
SortColumns ==
    /\ s_pc = "place"
    /\ s_k = Len(s_sorted)
    /\ s_columns' = SortedBy(s_columns, ColumnOrder(s_columns))
    /\ s_pc' = "emit"
    /\ UNCHANGED <<s_lines, s_sorted, s_k, s_c, s_final, cvars, mvars, tvars, nvars, pvars>>

\* one iteration of "for col in columns": col.sort(key=y), final_sorted.extend(col)
EmitColumn ==
    /\ s_pc = "emit"
    /\ s_c < Len(s_columns)
    /\ LET col == SortedBy(s_columns[s_c + 1], YAscending(s_columns[s_c + 1]))
       IN  /\ s_columns' = [s_columns EXCEPT ![s_c + 1] = col]
           /\ s_final' = s_final \o col
    /\ s_c' = s_c + 1
    /\ UNCHANGED <<s_lines, s_pc, s_sorted, s_k, cvars, mvars, tvars, nvars, pvars>>

\* return final_sorted
SortReturn ==
    /\ s_pc = "emit"
    /\ s_c = Len(s_columns)
    /\ s_pc' = "done"
    /\ UNCHANGED <<s_lines, s_sorted, s_k, s_columns, s_c, s_final, cvars, mvars, tvars, nvars, pvars>>

NextSort ==
    \/ SortEmpty
    \/ SortByX
    \/ PlaceLine
    \/ SortColumns
    \/ EmitColumn
    \/ SortReturn

SpecSort == InitSort /\ [][NextSort]_vars

----------------------------------------------------------------------------
(* Stage 1: extract_names of process_tokyo_directory.py *)

\* number of tokens the analyzer returns for a text
MaxTokens == 3

\* the surfaces a token may have: one, two or three characters
Surfaces == {<<"ta">>, <<"ta", "naka">>, <<"ta", "naka", "tai">>}

\* the tags a token may carry: surname, given name, another kind of person
\* name, or no person name at all
NameTags ==
    {[person |-> TRUE, sub |-> "sei"], [person |-> TRUE, sub |-> "mei"],
     [person |-> TRUE, sub |-> "other"], [person |-> FALSE, sub |-> "other"]}

\* what the analyzer may return for a text: up to MaxTokens tokens
TokenSeqs ==
    UNION {[1..n -> {Token(surface, tag) : surface \in Surfaces, tag \in NameTags}] :
              n \in 0..MaxTokens}

RECURSIVE Join(_)
\* ''.join(temp_name)
Join(parts) == IF parts = <<>> THEN <<>> ELSE Head(parts).surface \o Join(Tail(parts))

\* a name as it is appended to names, with the tags of the tokens it is made of
Name(parts) == [name |-> Join(parts), parts |-> [i \in 1..Len(parts) |-> parts[i].sub]]

\* names after a pending temp_name is flushed
Flush(names, temp_name, has_given_name) ==
    IF temp_name # <<>> /\ (has_given_name \/ Len(Join(temp_name)) >= 3)
    THEN Append(names, Name(temp_name))
    ELSE names

InitNames ==
    /\ start_page = None /\ end_page = None
    /\ has_v2_columns = TRUE
    /\ sudachi \in BOOLEAN
    /\ CompileStart
    /\ MatchIdle
    /\ TextIdle
    /\ SortIdle
    /\ PatchIdle
    /\ n_tokens \in TokenSeqs
    /\ n_pc = "loop"
    /\ n_i = 0
    /\ n_names = <<>>
    /\ n_temp = <<>>
    /\ n_has_given = FALSE

\* the token the loop is at
CurrentToken == n_tokens[n_i + 1]

\* the loop is at a token: the analyzer is loaded and the text is not empty
AtToken ==
    /\ n_pc = "loop"
    /\ sudachi
    /\ n_i < Len(n_tokens)

\* the loop moves on to the next token
NextToken ==
    /\ n_i' = n_i + 1
    /\ UNCHANGED <<n_tokens, n_pc, cvars, mvars, tvars, svars, pvars>>

\* "if tokenizer_obj is None or not text: return []"
NamesNone ==
    /\ n_pc = "loop"
    /\ n_i = 0
    /\ ~sudachi \/ n_tokens = <<>>
    /\ n_pc' = "done"
    /\ UNCHANGED <<n_tokens, n_i, n_names, n_temp, n_has_given, cvars, mvars, tvars, svars, pvars>>

\* a surname: flush the pending name and start a new one
NamesSurname ==
    /\ AtToken
    /\ CurrentToken.person /\ CurrentToken.sub = "sei"
    /\ n_names' = Flush(n_names, n_temp, n_has_given)
    /\ n_temp' = <<CurrentToken>>
    /\ n_has_given' = FALSE
    /\ NextToken

\* a given name behind a pending name: emit the two together
NamesGiven ==
    /\ AtToken
    /\ CurrentToken.person /\ CurrentToken.sub = "mei"
    /\ n_temp # <<>>
    /\ n_names' = Append(n_names, Name(Append(n_temp, CurrentToken)))
    /\ n_temp' = <<>>
    /\ n_has_given' = FALSE
    /\ NextToken

\* a given name with nothing pending: kept when it has two characters or more
NamesOrphan ==
    /\ AtToken
    /\ CurrentToken.person /\ CurrentToken.sub = "mei"
    /\ n_temp = <<>>
    /\ n_names' = IF Len(CurrentToken.surface) >= 2
                  THEN Append(n_names, Name(<<CurrentToken>>))
                  ELSE n_names
    /\ UNCHANGED <<n_temp, n_has_given>>
    /\ NextToken

\* another kind of person name: appended to the pending name
NamesOther ==
    /\ AtToken
    /\ CurrentToken.person /\ CurrentToken.sub = "other"
    /\ n_temp' = Append(n_temp, CurrentToken)
    /\ UNCHANGED <<n_names, n_has_given>>
    /\ NextToken

\* a token that is no person name: flush the pending name
NamesNonName ==
    /\ AtToken
    /\ ~CurrentToken.person
    /\ n_names' = Flush(n_names, n_temp, n_has_given)
    /\ n_temp' = <<>>
    /\ n_has_given' = FALSE
    /\ NextToken

\* after the loop: flush the final pending name and return
NamesReturn ==
    /\ n_pc = "loop"
    /\ sudachi
    /\ n_tokens # <<>>
    /\ n_i = Len(n_tokens)
    /\ n_names' = Flush(n_names, n_temp, n_has_given)
    /\ n_pc' = "done"
    /\ UNCHANGED <<n_tokens, n_i, n_temp, n_has_given, cvars, mvars, tvars, svars, pvars>>

NextNames ==
    \/ NamesNone
    \/ NamesSurname
    \/ NamesGiven
    \/ NamesOrphan
    \/ NamesOther
    \/ NamesNonName
    \/ NamesReturn

SpecNames == InitNames /\ [][NextNames]_vars

----------------------------------------------------------------------------
(* The patch scripts fix_final_v2.py ... fix_final_v14.py *)

\* number of lines of the unpatched file
MaxFile == 4

\* number of script runs on one file
MaxRuns == 2

\* a line of the file, by what the scripts look for in it, and by who wrote
\* it: "file" for the unpatched file, else the script that inserted it
\*   "code"     nothing the scripts look for
\*   "def"      holds 'def ' or 'class '
\*   "predict"  holds 'def predict(self, img):'
\*   "init"     holds 'self.model = init_detector'
\*   "patch"    holds '# PATCH:'
FileLine(kind, by) == [kind |-> kind, by |-> by]

\* the scripts: V2 (as V4, V5, V6 and V9: a block without def or class lines),
\* V12 (as V10: a block that defines a class), V14 (as V13: V12 and a
\* rewritten predict)
Scripts == {"v2", "v12", "v14"}

\* the unpatched files: one line that loads the model, among up to MaxFile lines
Files ==
    {f \in UNION {[1..n -> {FileLine(k, "file") : k \in {"code", "def", "predict", "init"}}] :
                     n \in 1..MaxFile} :
        Cardinality({i \in 1..Len(f) : f[i].kind = "init"}) = 1}

\* the block a script inserts behind the line that loads the model
InitBlock(script) ==
    IF script = "v2"
    THEN <<FileLine("patch", script), FileLine("code", script)>>
    ELSE <<FileLine("patch", script), FileLine("code", script),
           FileLine("def", script), FileLine("def", script), FileLine("code", script)>>

\* the body V14 writes behind 'def predict(self, img):'
PredictBlock(script) == <<FileLine("patch", script), FileLine("code", script)>>

\* '# PATCH:' in line
HasPatchMark(line) == line.kind = "patch"

\* 'def ' in line or 'class ' in line
HasDef(line) == line.kind \in {"def", "predict"}

\* skip_mode after the two tests at the head of the loop body
SkipAfterTests(line, skip_mode) ==
    IF HasDef(line) THEN FALSE ELSE skip_mode \/ HasPatchMark(line)

\* V14 rewrites predict at this line
Rewrites(script, line, skip_mode) ==
    script = "v14" /\ ~SkipAfterTests(line, skip_mode) /\ line.kind = "predict"

\* skip_mode after the loop body
SkipAfterLine(script, line, skip_mode) ==
    Rewrites(script, line, skip_mode) \/ SkipAfterTests(line, skip_mode)

\* new_lines after the loop body
NewAfterLine(script, line, skip_mode, new_lines) ==
    IF Rewrites(script, line, skip_mode)
    THEN Append(new_lines, line) \o PredictBlock(script)
    ELSE IF SkipAfterTests(line, skip_mode) THEN new_lines
    ELSE IF line.kind = "init" THEN Append(new_lines, line) \o InitBlock(script)
    ELSE Append(new_lines, line)

InitPatch ==
    /\ start_page = None /\ end_page = None
    /\ has_v2_columns = TRUE
    /\ sudachi = TRUE
    /\ CompileStart
    /\ MatchIdle
    /\ TextIdle
    /\ SortIdle
    /\ NamesIdle
    /\ p_file \in Files
    /\ p_script = "none"
    /\ p_i = 0
    /\ p_new = <<>>
    /\ p_skip = FALSE
    /\ p_runs = <<>>

\* a script is started: it reads the file
PatchStart(script) ==
    /\ p_script = "none"
    /\ Len(p_runs) < MaxRuns
    /\ p_script' = script
    /\ p_i' = 0
    /\ p_new' = <<>>
    /\ p_skip' = FALSE
    /\ UNCHANGED <<p_file, p_runs, cvars, mvars, tvars, svars, nvars>>

\* one iteration of "for line in lines"
PatchLine ==
    /\ p_script # "none"
    /\ p_i < Len(p_file)
    /\ p_new' = NewAfterLine(p_script, p_file[p_i + 1], p_skip, p_new)
    /\ p_skip' = SkipAfterLine(p_script, p_file[p_i + 1], p_skip)
    /\ p_i' = p_i + 1
    /\ UNCHANGED <<p_file, p_script, p_runs, cvars, mvars, tvars, svars, nvars>>

\* f.writelines(new_lines)
PatchWrite ==
    /\ p_script # "none"
    /\ p_i = Len(p_file)
    /\ p_file' = p_new
    /\ p_runs' = Append(p_runs, [script |-> p_script, wrote |-> p_new])
    /\ p_script' = "none"
    /\ UNCHANGED <<p_i, p_new, p_skip, cvars, mvars, tvars, svars, nvars>>

NextPatch ==
    \/ \E script \in Scripts : PatchStart(script)
    \/ PatchLine
    \/ PatchWrite

SpecPatch == InitPatch /\ [][NextPatch]_vars

----------------------------------------------------------------------------
(* Reading the run so far *)

\* what the classifiers say of each row of the pool
Classified ==
    [row \in RowPool |->
        [noise    |-> IsLikelyNoise(row),
         office   |-> OfficeHeader(row),
         position |-> IsPositionOnlyRow(row, KnownPositions),
         person   |-> RawName(row) # Empty \/ RawPos(row) # Empty]]

\* the row read last and how it left the loop body
LastRow == df[Len(df)]

LastOutcome == outcome[Len(outcome)]

\* the row carries an explicit position
Explicit(row) ==
    LET raw_pos == RawPos(row)
    IN  raw_pos # Empty /\ raw_pos # Unknown

\* a draft marker: a line whose text holds a draft keyword
DraftMarker(row) == IsDrafted(RawText(row))

\* the row went through the classification steps of the loop body
Processed(how) == how \notin {"raise", "page", "noise"}

\* number of records appended by the first n rows
RecIdx(n) == Cardinality({j \in 1..n : outcome[j] = "person"})

\* the record appended by row n, a person row
Rec(n) == compiled_rows[RecIdx(n)]

\* row i set current_position: a position header or an explicit position
IsEvent(i) ==
    \/ outcome[i] = "position"
    \/ outcome[i] = "person" /\ Explicit(df[i])

\* the title row i set
EventTitle(i) ==
    IF outcome[i] = "position" THEN Classified[df[i]].position[2] ELSE RawPos(df[i])

\* the last row up to k that set current_position, 0 when there is none
LastEvent(k) ==
    LET ev == {i \in 1..k : IsEvent(i)}
    IN  IF ev = {} THEN 0 ELSE CHOOSE i \in ev : \A j \in ev : j <= i

\* row k is the first person row since current_position was last set
FirstSinceEvent(k) ==
    LET e == LastEvent(k)
    IN  /\ e > 0
        /\ \A j \in e..(k - 1) : outcome[j] # "person"

----------------------------------------------------------------------------
(* Claims *)

\* C1: after a row recognised as an office header, current_office is the
\* header text, current_position is "Unknown" and position_person_count is 0.
\* The loop only assigns current_office: the position state survives.
C1_OfficeResetsPosition ==
    (Len(df) >= 1 /\ LastOutcome = "office") =>
        /\ current_office = Classified[LastRow].office[2]
        /\ current_position = Unknown
        /\ position_person_count = 0

\* C2: a draft marker processed after N >= 1 records sets drafted on record N
\* and on no other record, and appends no record of its own.
\* The loop computes drafted for the marker's own row and never touches an
\* earlier record.
C2_DraftMarksLastRecord ==
    [][\A row \in RowPool :
          (/\ df' = Append(df, row)
           /\ DraftMarker(row)
           /\ Processed(outcome'[Len(outcome')])
           /\ Len(compiled_rows) >= 1)
          => LET N == Len(compiled_rows)
             IN  /\ Len(compiled_rows') = N
                 /\ compiled_rows'[N].drafted
                 /\ \A i \in 1..(N - 1) : compiled_rows'[i] = compiled_rows[i]]_vars

\* C3: a draft marker processed when no record exists is a no-op: no record,
\* office, position and count unchanged.
\* The marker's row is compiled like any other row.
C3_DraftMarkerNoOp ==
    [][\A row \in RowPool :
          (/\ df' = Append(df, row)
           /\ DraftMarker(row)
           /\ Processed(outcome'[Len(outcome')])
           /\ compiled_rows = <<>>)
          => /\ compiled_rows' = <<>>
             /\ UNCHANGED <<current_office, current_position, position_person_count>>]_vars

\* a standalone header of a single-person title at row i, then person rows j
\* and k without explicit position, no header in between
C4_Case(i, j, k) ==
    /\ i < j /\ j < k
    /\ outcome[i] = "position"
    /\ EventTitle(i) \in SinglePersonPositions
    /\ outcome[j] = "person" /\ ~Explicit(df[j])
    /\ outcome[k] = "person" /\ ~Explicit(df[k])
    /\ \A m \in (i + 1)..(k - 1) : m # j => outcome[m] \in {"page", "noise", "skip"}

\* C4: under a single-person title set by a standalone position header, the
\* first of two person rows without explicit position gets the title and the
\* second gets "Unknown".
C4_SinglePersonRule ==
    \A i \in 1..Len(df) : \A j \in (i + 1)..Len(df) : \A k \in (j + 1)..Len(df) :
        C4_Case(i, j, k) =>
            /\ Rec(j).position = EventTitle(i)
            /\ Rec(k).position = Unknown

C4_Witness ==
    /\ \E i, j, k \in 1..Len(df) : C4_Case(i, j, k)
    /\ Len(compiled_rows) = 2

\* C5: between two consecutive events that set current_position, only the
\* first person record carries a single-person title; every later person row
\* gets "Unknown", office headers and noise in between or not; and the count
\* is never negative.
C5_SingleTitleOncePerEvent ==
    /\ position_person_count >= 0
    /\ \A k \in 1..Len(df) :
          outcome[k] = "person" =>
              LET e     == LastEvent(k)
                  first == FirstSinceEvent(k)
                  pos   == Rec(k).position
              IN  /\ pos \in SinglePersonPositions => first
                  /\ (/\ e > 0
                      /\ EventTitle(e) \in SinglePersonPositions
                      /\ ~first)
                     => pos = Unknown

C5_Witness ==
    \E e, m, k \in 1..Len(df) :
        /\ e < m /\ m < k
        /\ LastEvent(k) = e
        /\ EventTitle(e) \in SinglePersonPositions
        /\ outcome[m] = "office"
        /\ outcome[k] = "person"
        /\ ~FirstSinceEvent(k)
        /\ Rec(k).position = Unknown

\* the titles of the iterated set that are a prefix of the text
PrefixTitles ==
    {m_titles[i] : i \in {n \in 1..Len(m_titles) : StartsWith(m_text, m_titles[n])}}

\* C6: when some known title is a prefix of the text, match_position returns
\* the longest such title, whatever the order the set is iterated in.
C6_LongestPrefixWins ==
    (m_pc = "done" /\ PrefixTitles # {}) =>
        /\ m_result[1] \in PrefixTitles
        /\ \A t \in PrefixTitles : Len(t) <= Len(m_result[1])

C6_Witness ==
    /\ m_pc = "done"
    /\ m_text = <<"gi", "shi", "cho", "ta", "naka">>
    /\ m_titles = <<<<"gi", "shi", "cho">>, <<"gi", "shi">>>>
    /\ m_result[1] = <<"gi", "shi", "cho">>

\* more than 40% of the characters of the text are ASCII letters
LatinDominated(raw) == raw # Empty /\ 5 * CountIn(raw, AsciiAlpha) > 2 * Len(raw)

\* the rows of the pool whose raw text is Latin-dominated
LatinRows == {row \in RowPool : LatinDominated(row.raw_text)}

\* those with a raw text longer than 3 characters
LongLatinRows == {row \in LatinRows : Len(row.raw_text) > 3}

\* C7 as stated: every row whose raw text, of any length, is more than 40%
\* ASCII letters is classified as noise and yields no record.
C7_LatinIsNoise_AnyLength ==
    \A n \in 1..Len(df) :
        df[n] \in LatinRows =>
            /\ Classified[df[n]].noise
            /\ outcome[n] # "person"

\* C7 amended: every row whose raw text is longer than 3 characters and more
\* than 40% ASCII letters is classified as noise and is dropped without a
\* record, whatever the office and position state and the row's other fields.
C7_LatinIsNoise ==
    \A n \in 1..Len(df) :
        df[n] \in LongLatinRows =>
            /\ Classified[df[n]].noise
            /\ outcome[n] \in {"page", "noise"}

C7_Witness ==
    /\ Len(df) >= 2
    /\ LastRow \in LongLatinRows
    /\ LastOutcome = "noise"
    /\ current_position # Unknown
    /\ current_office # UnknownOffice

\* the end-to-end scenario: 所得税課, 課長, 田中太郎
Scenario == <<RowOffice, RowKacho, RowTanakaTaro>>

\* no row read so far lay outside the page range
AllInRange == \A n \in 1..Len(df) : outcome[n] # "page"

\* C8: from the initial state, with the rows inside the page range, the
\* office header and the position header yield no record and the name row
\* yields the only record, office 所得税課 and position 課長.
C8_EndToEnd ==
    /\ (AllInRange /\ df = SubSeq(Scenario, 1, 1)) => compiled_rows = <<>>
    /\ (AllInRange /\ df = SubSeq(Scenario, 1, 2)) => compiled_rows = <<>>
    /\ (AllInRange /\ df = Scenario) =>
          /\ Len(compiled_rows) = 1
          /\ compiled_rows[1].office = <<"jo", "toku", "zei", "ka">>
          /\ compiled_rows[1].position = <<"ka", "cho">>

C8_Witness == AllInRange /\ df = Scenario /\ Len(compiled_rows) = 1

\* rows n and n+1 come from the same source line and both yield a record
C10_Case(n) ==
    /\ n + 1 <= Len(df)
    /\ df[n].raw_text = df[n + 1].raw_text
    /\ df[n].position = df[n + 1].position
    /\ outcome[n] = "person"
    /\ outcome[n + 1] = "person"

\* C10: two consecutive person rows of one source line get the same office
\* and the same position, except that the single-person rule may give the
\* later one "Unknown" after the earlier one took the single-person title.
C10_SameLineSameContext ==
    \A n \in 1..Len(df) :
        C10_Case(n) =>
            /\ Rec(n + 1).office = Rec(n).office
            /\ \/ Rec(n + 1).position = Rec(n).position
               \/ /\ Rec(n + 1).position = Unknown
                  /\ Rec(n).position \in SinglePersonPositions

C10_Witness ==
    \E n \in 1..Len(df) :
        /\ C10_Case(n)
        /\ df[n] # df[n + 1]
        /\ Rec(n).position \in SinglePersonPositions
        /\ Rec(n + 1).position = Unknown

\* C11: for every row that is not dropped before classification the tests run
\* in the order office header, position header, person row.  A row that
\* passes the office-header test is consumed as an office header only: it
\* sets current_office, its position cell is applied neither as a position
\* header nor as an explicit position, and no record is appended, even when
\* the position-header test and the person-row condition hold of it too.  A
\* row that passes the position-header test and not the office-header test
\* appends no record.
C11_FixedOrder ==
    [][\A row \in RowPool :
          (/\ df' = Append(df, row)
           /\ Processed(outcome'[Len(outcome')]))
          => /\ Classified[row].office[1] =>
                   /\ outcome'[Len(outcome')] = "office"
                   /\ current_office' = Classified[row].office[2]
                   /\ UNCHANGED <<current_position, position_person_count, compiled_rows>>
             /\ (~Classified[row].office[1] /\ Classified[row].position[1]) =>
                   /\ outcome'[Len(outcome')] = "position"
                   /\ compiled_rows' = compiled_rows]_vars

C11_Witness ==
    /\ Len(df) >= 2
    /\ LastRow = RowOfficeTitle
    /\ Classified[LastRow].office[1]
    /\ Classified[LastRow].position[1]
    /\ Classified[LastRow].person
    /\ LastOutcome = "office"
    /\ current_office = <<"sho", "ki", "ka">>
    /\ current_position = <<"ka", "cho">>
    /\ position_person_count = 1

\* C12: a person row with an explicit position other than "Unknown" gets
\* exactly that position in its record and leaves current_position equal to
\* it and position_person_count equal to 1, whatever the position and count
\* were before.
C12_ExplicitPositionOverrides ==
    (Len(df) >= 1 /\ LastOutcome = "person" /\ Explicit(LastRow)) =>
        /\ compiled_rows[Len(compiled_rows)].position = RawPos(LastRow)
        /\ current_position = RawPos(LastRow)
        /\ position_person_count = 1

\* the explicit position arrives when a single-person title is already taken
C12_Witness ==
    /\ Len(df) = 3
    /\ outcome[1] = "person" /\ Explicit(df[1])
    /\ RawPos(df[1]) \in SinglePersonPositions
    /\ outcome[2] = "person" /\ Rec(2).position = Unknown
    /\ outcome[3] = "person" /\ Explicit(df[3])
    /\ RawPos(df[3]) # RawPos(df[1])
    /\ Rec(3).position = RawPos(df[3])
    /\ position_person_count = 1

\* the three cases of a standalone position header, on the row's cells
HeaderCase(row) ==
    \/ Explicit(row) /\ RawName(row) = Empty
    \/ Strip(row.raw_text) \in KnownPositions
    \/ RawName(row) \in KnownPositions /\ ~Explicit(row)

\* the title the header carries, case by case
HeaderTitle(row) ==
    IF Explicit(row) /\ RawName(row) = Empty THEN RawPos(row)
    ELSE IF Strip(row.raw_text) \in KnownPositions THEN Strip(row.raw_text)
    ELSE RawName(row)

\* C13: a row recognised as a standalone position header (position set with
\* empty name, or raw text a known title, or name a known title with no
\* position) sets current_position to the detected title and
\* position_person_count to 0, leaves current_office and the records as they
\* are, and appends no record.
C13_PositionHeaderEffect ==
    [][\A row \in RowPool :
          (/\ df' = Append(df, row)
           /\ Processed(outcome'[Len(outcome')])
           /\ ~Classified[row].office[1]
           /\ HeaderCase(row))
          => /\ outcome'[Len(outcome')] = "position"
             /\ current_position' = HeaderTitle(row)
             /\ position_person_count' = 0
             /\ UNCHANGED <<current_office, compiled_rows>>]_vars

\* a header read after a record, under another title with a count
C13_Witness ==
    /\ Len(df) = 3
    /\ outcome[1] = "office"
    /\ outcome[2] = "person" /\ Explicit(df[2])
    /\ outcome[3] = "position"
    /\ HeaderCase(df[3])
    /\ current_position = HeaderTitle(df[3])
    /\ current_position # RawPos(df[2])
    /\ position_person_count = 0
    /\ Len(compiled_rows) = 1

\* C14: a row classified as noise leaves current_office, current_position,
\* position_person_count and the records unchanged, and of the counters only
\* the noise counter advances, also when the row passes the office-header or
\* the position-header test.
C14_NoiseFrame ==
    [][\A row \in RowPool :
          (/\ df' = Append(df, row)
           /\ outcome'[Len(outcome')] \notin {"raise", "page"}
           /\ Classified[row].noise)
          => /\ outcome'[Len(outcome')] = "noise"
             /\ n_noise_filtered' = n_noise_filtered + 1
             /\ UNCHANGED <<current_office, current_position, position_person_count,
                            compiled_rows, n_page_filtered, n_position_headers,
                            n_position_propagated>>]_vars

\* noise rows that are an office header and a position header, read after
\* office, position and a record are set
C14_Witness ==
    /\ Len(df) = 3
    /\ outcome[1] = "person" /\ Explicit(df[1])
    /\ outcome[2] = "noise" /\ Classified[df[2]].office[1]
    /\ outcome[3] = "noise" /\ Classified[df[3]].position[1]
    /\ current_position = RawPos(df[1])
    /\ position_person_count = 1
    /\ n_noise_filtered = 2
    /\ Len(compiled_rows) = 1

\* C15: a record's office is current_office and its position is
\* current_position or "Unknown" as they stand when the record is appended,
\* and no later row changes a record: compiled_rows only grows at its end.
C15_RecordsKeepContext ==
    [][/\ Len(compiled_rows') >= Len(compiled_rows)
       /\ SubSeq(compiled_rows', 1, Len(compiled_rows)) = compiled_rows
       /\ Len(compiled_rows') > Len(compiled_rows) =>
             /\ Len(compiled_rows') = Len(compiled_rows) + 1
             /\ compiled_rows'[Len(compiled_rows')].office = current_office
             /\ compiled_rows'[Len(compiled_rows')].office = current_office'
             /\ compiled_rows'[Len(compiled_rows')].position \in {current_position', Unknown}]_vars

\* a record, then an office header, then a record under the new office
C15_Witness ==
    /\ Len(df) = 3
    /\ outcome = <<"person", "office", "person">>
    /\ compiled_rows[1].office = UnknownOffice
    /\ compiled_rows[1].position # Unknown
    /\ compiled_rows[2].office = current_office
    /\ current_office # UnknownOffice
    /\ compiled_rows[2].position # compiled_rows[1].position

\* C16: every record has a cleaned name of at least 2 characters.
\* The loop appends a record for every row that reaches step 3 with a name or
\* a position cell, whatever the length of the name.
C16_NamesAtLeastTwoChars ==
    \A i \in 1..Len(compiled_rows) : Len(compiled_rows[i].name) >= 2

\* C17: a non-noise row with an empty name and a position that is empty or
\* "Unknown", neither an office header nor a position header, is skipped: no
\* record, office, position and count unchanged.
\* A position cell of "Unknown" is a non-empty string: the row is compiled as
\* a person row.
C17_EmptyRowSkipped ==
    [][\A row \in RowPool :
          (/\ df' = Append(df, row)
           /\ Processed(outcome'[Len(outcome')])
           /\ RawName(row) = Empty
           /\ RawPos(row) \in {Empty, Unknown}
           /\ ~Classified[row].office[1]
           /\ ~Classified[row].position[1])
          => UNCHANGED <<compiled_rows, current_office, current_position,
                         position_person_count>>]_vars

\* C18: a row with missing cells never raises, with or without a page range:
\* the loop goes on to the next row.
\* With a page range the page number is converted with int(), which raises on
\* a missing folder cell.
C18_MissingCellsNeverRaise ==
    \A n \in 1..Len(df) : outcome[n] # "raise"

\* the page number lies in [start_page, end_page], a bound that is not given
\* being unbounded
InRange(row) ==
    /\ start_page # None => PageNum(row) >= start_page[1]
    /\ end_page # None => PageNum(row) <= end_page[1]

\* C19: with a page range, a row whose page number lies outside it is dropped
\* before the other tests, with no record and no change of office, position
\* and count; a row inside it is processed as without the filter.
\* A bound that is not given is replaced by 0 or 999999, so a page beyond
\* 999999 is dropped when only start_page is given.
C19_PageRangeFilter ==
    [][\A row \in RowPool :
          (df' = Append(df, row) /\ row.folder # NoNumber)
          => /\ (UsePageRange /\ ~InRange(row)) =>
                   /\ outcome'[Len(outcome')] = "page"
                   /\ UNCHANGED <<compiled_rows, current_office, current_position,
                                  position_person_count>>
             /\ InRange(row) => outcome'[Len(outcome')] = KindOf[row]]_vars

\* the text is_header_candidate was called with first by the last iteration:
\* the name of the row, when the row reached step 1
HeaderTexts ==
    IF Len(df) >= 1 /\ Processed(LastOutcome) THEN {RawName(LastRow)} ELSE {}

\* the text, or the text without its leading circle symbols, is in headers_set
InCrosswalk(text) ==
    text \in HeadersSet \/ Strip(LStripSet(text, CircleSymbols)) \in HeadersSet

\* C20 as stated: is_header_candidate is true of every text that is in
\* headers_set, itself or with its leading circle symbols stripped.
C20_CrosswalkHeaderAccepted_Always ==
    \A text \in HeaderTexts :
        InCrosswalk(text) => IsHeaderCandidate(text, HeadersSet)

\* C20 amended: is_header_candidate is true of every text that is not empty,
\* does not begin with an opening bracket, does not consist of circle symbols
\* only, and is in headers_set, itself or with its leading circle symbols
\* stripped.
C20_CrosswalkHeaderAccepted ==
    \A text \in HeaderTexts :
        (/\ text # Empty
         /\ text[1] \notin OpenBrackets
         /\ LStripSet(text, CircleSymbols) # Empty
         /\ InCrosswalk(text))
        => IsHeaderCandidate(text, HeadersSet)

\* ◎得税 was read and became the office by the crosswalk alone
C20_Witness ==
    /\ Len(df) >= 1
    /\ LastOutcome = "office"
    /\ RawName(LastRow) \notin HeadersSet
    /\ InCrosswalk(RawName(LastRow))
    /\ LastRow.name[Len(LastRow.name)] \notin OfficeEndings
    /\ current_office = RawName(LastRow)

\* the text is_header_candidate works on: trimmed, and with the leading
\* circle symbols stripped
Trimmed(text) == Strip(text)

CircleStripped(text) == Strip(LStripSet(Strip(text), CircleSymbols))

\* the last character of a text, "" when it is empty
LastChar(text) == IF text = Empty THEN "" ELSE text[Len(text)]

\* C21 as stated: for a text that is not in the known headers,
\* is_header_candidate returns true if and only if the text is shorter than 15
\* characters, ends with an office-ending character and does not end with 長.
C21_EndingRule_AnyText ==
    (t_fn = "is_header_candidate" /\ t_text \notin HeadersSet) =>
        (t_out <=> /\ Len(t_text) < 15
                   /\ LastChar(t_text) \in OfficeEndings
                   /\ LastChar(t_text) # "cho")

\* C21, amended: for a text that is not in the known headers (trimmed, and
\* with its leading circle symbols stripped), is_header_candidate returns true
\* if and only if the trimmed text does not begin with an opening bracket and
\* the circle-stripped text is shorter than 15 characters, ends with an
\* office-ending character and does not end with 長.
C21_EndingRule ==
    (/\ t_fn = "is_header_candidate"
     /\ Trimmed(t_text) \notin HeadersSet
     /\ CircleStripped(t_text) \notin HeadersSet) =>
        (t_out <=> /\ Trimmed(t_text) # Empty
                   /\ Trimmed(t_text)[1] \notin OpenBrackets
                   /\ Len(CircleStripped(t_text)) < 15
                   /\ LastChar(CircleStripped(t_text)) \in OfficeEndings
                   /\ LastChar(CircleStripped(t_text)) # "cho")

\* a circle symbol and fourteen characters that end in 課: accepted at 15
\* characters, on the length of the circle-stripped text
C21_Witness ==
    /\ t_fn = "is_header_candidate"
    /\ t_text = <<"maru">> \o Pad(13) \o <<"ka">>
    /\ t_out = TRUE

\* the hard constraints of is_plausible_name fail on the text: its trimmed
\* length is below 2 or above 8, or fewer than 80% of its characters are CJK
\* ideographs or katakana
FailsHardConstraints(text) ==
    LET name == Strip(text)
    IN  \/ Len(name) < 2
        \/ Len(name) > 8
        \/ 5 * CountIn(name, CjkOrKatakana) < 4 * Len(name)

\* C22: is_plausible_name returns false for every string whose trimmed length
\* is below 2 or above 8 and for every string with fewer than 80% CJK or
\* katakana characters, with or without the analyzer and whatever the
\* analyzer returns.
C22_HardConstraints ==
    (t_fn = "is_plausible_name" /\ FailsHardConstraints(t_text)) => t_out = FALSE

\* a nine-character text the analyzer tags as a person name, rejected with
\* the analyzer loaded
C22_Witness ==
    /\ t_fn = "is_plausible_name"
    /\ sudachi
    /\ Len(Strip(t_text)) = 9
    /\ \E tokens \in Tokenisations(Strip(t_text)) : PersonNameTokens(Strip(t_text), tokens)
    /\ t_out = FALSE

\* a feminine signal of the variant's pattern is present in the name
FeminineSignal(name, endings) ==
    \/ name[Len(name)] \in endings
    \/ FemaleAffix(name)

\* C23: in both gender classifiers a name exactly equal to an entry of that
\* variant's surname blocklist is classified "male", although it ends in a
\* feminine-coded character: the blocklist test comes before every feminine
\* signal and overrides it.
C23_BlocklistWins ==
    /\ (t_fn = "classify_gender_legacy" /\ Strip(t_text) \in BlocklistLegacy) =>
           t_out = "male"
    /\ (t_fn = "classify_gender_modern" /\ Strip(t_text) \in BlocklistModern) =>
           t_out = "male"

\* 平子, on the modern blocklist only and ending in 子: male
C23_Witness ==
    /\ t_fn = "classify_gender_modern"
    /\ Strip(t_text) = <<"hira", "ko">>
    /\ FeminineSignal(Strip(t_text), FemaleEndingsModern)
    /\ t_out = "male"

RECURSIVE Flatten(_)
\* the columns one after the other
Flatten(columns) ==
    IF columns = <<>> THEN <<>> ELSE Head(columns) \o Flatten(Tail(columns))

\* C24: sort_lines_by_columns returns a permutation of its input lines (none
\* lost, none duplicated) in which the column groups appear right-to-left, by
\* descending average x of the group, and the lines of each group appear
\* top-to-bottom, by ascending y.
C24_SortedPermutation ==
    s_pc = "done" =>
        /\ Len(s_final) = Len(s_lines)
        /\ Elems(s_final) = Elems(s_lines)
        /\ s_final = Flatten(s_columns)
        /\ \A c, d \in 1..Len(s_columns) :
               c < d => SumX(s_columns[c]) * Len(s_columns[d]) >=
                        SumX(s_columns[d]) * Len(s_columns[c])
        /\ \A c \in 1..Len(s_columns) : \A i, j \in 1..Len(s_columns[c]) :
               i < j => s_columns[c][i].y <= s_columns[c][j].y

\* a page of three lines returned in another order, in two column groups of
\* which one holds two lines of different y
C24_Witness ==
    /\ s_pc = "done"
    /\ Len(s_lines) = 3
    /\ s_final # s_lines
    /\ Len(s_columns) = 2
    /\ \E c \in 1..2 : Len(s_columns[c]) = 2 /\ s_columns[c][1].y < s_columns[c][2].y

\* the x-centres of two lines are less than the tolerance apart
CentresClose(a, b) == Abs(Centre2(a) - Centre2(b)) < 2 * Tolerance

\* the x-centre of the line is less than the tolerance from the average
\* x-centre of the lines of the group
CloseToAverage(line, group) ==
    Abs(Centre2(line) * Len(group) - SumCentre2(group)) < 2 * Tolerance * Len(group)

\* C30 as stated: two lines of one column group have x-centres less than
\* tolerance apart, so a line whose x-centre is at least tolerance to the
\* right of another line's precedes it in the output, whatever their y.
C30_GroupsNarrow ==
    s_pc = "done" =>
        /\ \A c \in 1..Len(s_columns) : \A i, j \in 1..Len(s_columns[c]) :
               CentresClose(s_columns[c][i], s_columns[c][j])
        /\ \A i, j \in 1..Len(s_final) :
               Centre2(s_final[i]) - Centre2(s_final[j]) >= 2 * Tolerance => i < j

\* C30, amended: a line joins a column group only when its x-centre is less
\* than tolerance from the average x-centre of the lines already in the
\* group, and starts a new group only when it is tolerance or more from the
\* average of every existing group.
C30_CloseToGroupAverage ==
    [][(s_pc = "place" /\ s_k' = s_k + 1) =>
          IF Len(s_columns') = Len(s_columns)
          THEN \E c \in 1..Len(s_columns) :
                   /\ s_columns'[c] = Append(s_columns[c], s_sorted[s_k + 1])
                   /\ CloseToAverage(s_sorted[s_k + 1], s_columns[c])
          ELSE /\ s_columns' = Append(s_columns, <<s_sorted[s_k + 1]>>)
               /\ \A c \in 1..Len(s_columns) :
                      ~CloseToAverage(s_sorted[s_k + 1], s_columns[c])]_vars

\* a group that holds two lines a tolerance or more apart, the one further
\* right returned after the other
C30_Witness ==
    /\ s_pc = "done"
    /\ \E c \in 1..Len(s_columns) : \E i, j \in 1..Len(s_columns[c]) :
           /\ i < j
           /\ Centre2(s_columns[c][j]) - Centre2(s_columns[c][i]) >= 2 * Tolerance

\* the values a gender column takes for a plausible name
Genders == {"male", "female"}

\* the record appended last
LastRecord == compiled_rows[Len(compiled_rows)]

\* C25: in every emitted record gender_legacy and gender_modern are both
\* "male" or "female" when is_name is true, and both are the empty string when
\* is_name is false.  Records are never changed once appended, so the record
\* appended last stands for every record.
C25_GenderFollowsIsName ==
    Len(compiled_rows) >= 1 =>
        IF LastRecord.is_name
        THEN LastRecord.gender_legacy \in Genders /\ LastRecord.gender_modern \in Genders
        ELSE LastRecord.gender_legacy = "" /\ LastRecord.gender_modern = ""

\* a run that emitted a plausible feminine name, and after it a record whose
\* name is not plausible
C25_Witness ==
    /\ Len(compiled_rows) >= 2
    /\ \E n \in 1..(Len(compiled_rows) - 1) :
           /\ compiled_rows[n].is_name
           /\ compiled_rows[n].gender_legacy = "female"
           /\ compiled_rows[n].gender_modern = "female"
    /\ ~LastRecord.is_name
    /\ LastRecord.name # Empty
    /\ LastRecord.gender_legacy = ""

\* the name is a surname token followed by a given-name token
SurnameGivenPair(name) == name.parts = <<"sei", "mei">>

\* C26: extract_names emits only names that are a surname token followed by a
\* given-name token, or that are at least 3 characters long; a name of 1 or 2
\* characters that is not such a pair is never emitted.
C26_PairOrThreeChars ==
    \A k \in 1..Len(n_names) :
        SurnameGivenPair(n_names[k]) \/ Len(n_names[k].name) >= 3

\* the run before the last one, and the last one
EarlierRun == p_runs[Len(p_runs) - 1]

LastRun == p_runs[Len(p_runs)]

\* the positions of the lines of the file that load the model
InitLines(file) == {i \in 1..Len(file) : file[i] = FileLine("init", "file")}

\* position i lies in the predict body the script wrote behind a predict line
InPredictBlock(file, script, i) ==
    /\ script = "v14"
    /\ \E j \in 1..Len(file) :
           /\ file[j] = FileLine("predict", "file")
           /\ j < i /\ i <= j + Len(PredictBlock(script))
           /\ SubSeq(file, j + 1, j + Len(PredictBlock(script))) = PredictBlock(script)

\* the file holds exactly one patch block, the script's own, and it stands
\* behind the line that loads the model
OnePatchBlock(file, script) ==
    /\ \A i \in InitLines(file) :
           SubSeq(file, i + 1, i + Len(InitBlock(script))) = InitBlock(script)
    /\ Cardinality({i \in 1..Len(file) :
                       file[i].by # "file" /\ ~InPredictBlock(file, script, i)})
           = Len(InitBlock(script)) * Cardinality(InitLines(file))

\* C27: a patch script run on a file that already holds a block inserted by
\* an earlier run removes every line of the earlier "# PATCH:" block before
\* it inserts its own: the output holds exactly one patch block behind the
\* line that loads the model, and running the same script twice gives the
\* same file as running it once.
C27_PatchReplacesBlock ==
    (/\ p_script = "none"
     /\ Len(p_runs) >= 2
     /\ \E i \in 1..Len(EarlierRun.wrote) : HasPatchMark(EarlierRun.wrote[i])) =>
        /\ OnePatchBlock(LastRun.wrote, LastRun.script)
        /\ LastRun.script = EarlierRun.script => LastRun.wrote = EarlierRun.wrote

\* the text behind its first n characters
After(text, n) == SubSeq(text, n + 1, Len(text))

\* C28: match_position splits its text without loss.  When it returns a title
\* other than "Unknown", grade + title + remaining is the input text, up to
\* the whitespace trimmed from the remainder, and a grade is returned only
\* when no title is a prefix of the text; when it returns "Unknown" the grade
\* is empty and the remaining text is the input.
C28_SplitWithoutLoss ==
    m_pc = "done" =>
        IF m_result[1] # Unknown
        THEN /\ StartsWith(m_text, m_result[2] \o m_result[1])
             /\ m_result[3] = Strip(After(m_text, Len(m_result[2]) + Len(m_result[1])))
             /\ m_result[2] # Empty =>
                    \A i \in 1..Len(m_titles) : ~StartsWith(m_text, m_titles[i])
        ELSE m_result[2] = Empty /\ m_result[3] = m_text

\* a grade, a title and a name: 七上技師長田中
C28_Witness ==
    /\ m_pc = "done"
    /\ m_text = <<"nana", "ue", "gi", "shi", "cho", "ta", "naka">>
    /\ m_result = <<<<"gi", "shi", "cho">>, <<"nana", "ue">>, <<"ta", "naka">>>>

\* the ways a row leaves the loop body
Outcomes == {"page", "noise", "office", "position", "person", "skip"}

\* number of rows among the first n that left the loop body as a person row
PersonRows(n) == Cardinality({j \in 1..n : outcome[j] = "person"})

\* C29: every input row ends in exactly one of the outcomes page-filtered,
\* noise-filtered, office header, position header, one person record, or
\* skipped; each row appends at most one record, only person rows append, and
\* after any prefix of the input the number of records is at most the number
\* of rows processed.
C29_OneOutcomePerRow ==
    /\ Len(outcome) = Len(df)
    /\ \A n \in 1..Len(df) : outcome[n] \in Outcomes
    /\ Len(compiled_rows) = PersonRows(Len(df))
    /\ Len(compiled_rows) <= Len(df)

====
